---------------------------- MODULE Spec2Model ----------------------------
(***************************************************************************)
(* The HTTP basic auth demo server (Bun.serve with a static route and a    *)
(* dynamic fetch handler) and the demo page that calls it.                 *)
(*                                                                         *)
(* Text is a sequence of one-character strings, so that startsWith, slice, *)
(* split, btoa and the base64 decoding of Buffer.from are computed on the  *)
(* characters as the code computes them.  All text of the model is         *)
(* printable ASCII, for which Buffer#toString (UTF-8) and btoa (Latin-1)   *)
(* agree on the bytes.                                                     *)
(***************************************************************************)
EXTENDS Integers, Sequences, FiniteSets

(***************************************************************************)
(* Characters and bytes                                                    *)
(***************************************************************************)

\* The printable ASCII characters, code 32 (space) to 126 (~), in order (the
\* grave accent, code 96, is written GRAVE).
Ascii ==
  << " ", "!", "\"", "#", "$", "%", "&", "'", "(", ")", "*", "+", ",", "-", ".", "/",
     "0", "1", "2", "3", "4", "5", "6", "7", "8", "9", ":", ";", "<", "=", ">", "?",
     "@", "A", "B", "C", "D", "E", "F", "G", "H", "I", "J", "K", "L", "M", "N", "O",
     "P", "Q", "R", "S", "T", "U", "V", "W", "X", "Y", "Z", "[", "\\", "]", "^", "_",
     "GRAVE", "a", "b", "c", "d", "e", "f", "g", "h", "i", "j", "k", "l", "m", "n", "o",
     "p", "q", "r", "s", "t", "u", "v", "w", "x", "y", "z", "{", "|", "}", "~" >>

\* The standard base64 alphabet: the character of value v is Base64Alphabet[v + 1].
Base64Alphabet ==
  << "A", "B", "C", "D", "E", "F", "G", "H", "I", "J", "K", "L", "M", "N", "O", "P",
     "Q", "R", "S", "T", "U", "V", "W", "X", "Y", "Z", "a", "b", "c", "d", "e", "f",
     "g", "h", "i", "j", "k", "l", "m", "n", "o", "p", "q", "r", "s", "t", "u", "v",
     "w", "x", "y", "z", "0", "1", "2", "3", "4", "5", "6", "7", "8", "9", "+", "/" >>

\* String#charCodeAt for one character.
CharCode(c) == 31 + CHOOSE i \in 1..Len(Ascii) : Ascii[i] = c

\* One byte of a decoded buffer as text (Buffer#toString).  A byte outside the
\* printable range is kept apart from every printable character: a control
\* character below 32, the replacement character U+FFFD from 128 on.
FromCharCode(b) ==
  IF b >= 32 /\ b <= 126 THEN Ascii[b - 31]
  ELSE IF b < 32 THEN "CTRL" ELSE "U+FFFD"

\* The 6-bit value of a base64 character, -1 for a character that has none.
\* Buffer.from(s, 'base64') also takes the URL-safe alphabet ('-' and '_').
Unbase64(c) ==
  IF \E i \in 1..64 : Base64Alphabet[i] = c
    THEN (CHOOSE i \in 1..64 : Base64Alphabet[i] = c) - 1
    ELSE IF c = "-" THEN 62 ELSE IF c = "_" THEN 63 ELSE -1

(***************************************************************************)
(* String methods                                                          *)
(***************************************************************************)

\* String#startsWith
StartsWith(s, prefix) ==
  Len(s) >= Len(prefix) /\ SubSeq(s, 1, Len(prefix)) = prefix

\* String#slice(start), start counted from 0
Slice(s, start) == SubSeq(s, start + 1, Len(s))

\* String#split(separator) for a one-character separator: every separator
\* cuts, so a text with n separators gives n + 1 fields (the empty text gives
\* one empty field).
RECURSIVE SplitFrom(_, _, _)
SplitFrom(s, separator, field) ==
  IF s = << >> THEN << field >>
  ELSE IF Head(s) = separator
    THEN << field >> \o SplitFrom(Tail(s), separator, << >>)
    ELSE SplitFrom(Tail(s), separator, Append(field, Head(s)))

Split(s, separator) == SplitFrom(s, separator, << >>)

\* Array destructuring: the element at position i (from 1), undefined when
\* the array is shorter.
Undefined == [defined |-> FALSE, value |-> << >>]

Destructure(parts, i) ==
  IF i <= Len(parts) THEN [defined |-> TRUE, value |-> parts[i]] ELSE Undefined

\* The strict inequality x !== s of a destructured element x with a string s.
StrictNotEqual(x, s) == ~(x.defined /\ x.value = s)

(***************************************************************************)
(* base64                                                                  *)
(***************************************************************************)

\* The 6-bit values Buffer.from(s, 'base64') reads from s: decoding ends at
\* the first '=', and a character outside the alphabet (white space) is
\* skipped.  The decoder reports no error for any input.
RECURSIVE Sextets(_)
Sextets(s) ==
  IF s = << >> \/ Head(s) = "=" THEN << >>
  ELSE IF Unbase64(Head(s)) < 0 THEN Sextets(Tail(s))
  ELSE << Unbase64(Head(s)) >> \o Sextets(Tail(s))

\* The bytes of a run of 6-bit values: four values give three bytes, and a
\* last group of three gives two bytes, of two gives one, of one gives none.
RECURSIVE BytesOf(_)
BytesOf(v) ==
  IF Len(v) < 2 THEN << >>
  ELSE IF Len(v) = 2 THEN << (v[1] * 4) + (v[2] \div 16) >>
  ELSE IF Len(v) = 3
    THEN << (v[1] * 4) + (v[2] \div 16), ((v[2] % 16) * 16) + (v[3] \div 4) >>
  ELSE << (v[1] * 4) + (v[2] \div 16),
          ((v[2] % 16) * 16) + (v[3] \div 4),
          ((v[3] % 4) * 64) + v[4] >> \o BytesOf(SubSeq(v, 5, Len(v)))

\* Buffer.from(s, 'base64').toString()
BufferFromBase64ToString(s) ==
  LET bytes == BytesOf(Sextets(s))
  IN  [i \in 1..Len(bytes) |-> FromCharCode(bytes[i])]

\* btoa(s): the bytes of s three at a time as four base64 characters, the
\* last group padded with '='.
RECURSIVE EncodeBytes(_)
EncodeBytes(b) ==
  IF b = << >> THEN << >>
  ELSE IF Len(b) = 1
    THEN << Base64Alphabet[(b[1] \div 4) + 1],
            Base64Alphabet[((b[1] % 4) * 16) + 1], "=", "=" >>
  ELSE IF Len(b) = 2
    THEN << Base64Alphabet[(b[1] \div 4) + 1],
            Base64Alphabet[((b[1] % 4) * 16) + (b[2] \div 16) + 1],
            Base64Alphabet[((b[2] % 16) * 4) + 1], "=" >>
  ELSE << Base64Alphabet[(b[1] \div 4) + 1],
          Base64Alphabet[((b[1] % 4) * 16) + (b[2] \div 16) + 1],
          Base64Alphabet[((b[2] % 16) * 4) + (b[3] \div 64) + 1],
          Base64Alphabet[(b[3] % 64) + 1] >> \o EncodeBytes(SubSeq(b, 4, Len(b)))

btoa(s) == EncodeBytes([i \in 1..Len(s) |-> CharCode(s[i])])

(***************************************************************************)
(* Texts of the model                                                      *)
(***************************************************************************)

Tom == << "t", "o", "m" >>
Wrong == << "w", "r", "o", "n", "g" >>
At == << "@" >>
Empty == << >>
Colon == << ":" >>
Secret1234 == << "1", "2", "3", "4" >>
SecretWithColon == << "1", "2", ":", "4" >>
Extra == << "x" >>

BasicPrefix == << "B", "a", "s", "i", "c", " " >>
BearerXyz == << "B", "e", "a", "r", "e", "r", " ", "x", "y", "z" >>

Root == << "/" >>
ApiData == << "/", "a", "p", "i", "/", "d", "a", "t", "a" >>
ApiDataQuery == ApiData \o << "?", "x", "=", "1" >>
ApiDataSlash == ApiData \o << "/" >>
OtherPath == << "/", "o", "t", "h", "e", "r", "/", "p", "a", "t", "h" >>

\* The value of a header that is not there (Headers#get gives null).
Null == [defined |-> FALSE, value |-> << >>]

\* A header value that is there.
Value(s) == [defined |-> TRUE, value |-> s]

(***************************************************************************)
(* The inputs: the configurations of secrets.ts the model is checked for,  *)
(* and the requests a client sends.                                        *)
(***************************************************************************)

\* The pairs secrets.ts may export: the pair of the README, a password that
\* holds a colon, and a user name used as a token with no password.
Secrets ==
  { [USER_NAME |-> Tom, PASSWORD |-> Secret1234],
    [USER_NAME |-> Tom, PASSWORD |-> SecretWithColon],
    [USER_NAME |-> Tom, PASSWORD |-> Empty] }

\* The user-pass texts a client encodes into its Authorization header.
Payloads ==
  { Tom \o Colon \o Secret1234,                      \* tom:1234
    Tom \o Colon \o SecretWithColon,                 \* tom:12:4
    Tom \o Colon \o Secret1234 \o Colon \o Extra,    \* tom:1234:x
    Tom \o Colon,                                    \* tom:
    Tom,                                             \* tom
    Colon \o Secret1234,                             \* :1234
    At \o Colon,                                     \* @:
    Wrong \o Colon \o Secret1234 }                   \* wrong:1234

\* A base64 text with its padding left off.
Unpadded(s) == SelectSeq(s, LAMBDA c : c # "=")

\* Base64 texts that are not well formed: padding missing, and a lone
\* character, which holds no byte.
MalformedBase64 ==
  { Unpadded(btoa(Tom \o Colon \o Secret1234)),
    Unpadded(btoa(Tom \o Colon)),
    Unpadded(btoa(Wrong \o Colon \o Secret1234)),
    << "d" >> }

\* The Authorization header of a request: none, another scheme, the Basic
\* scheme with a well formed payload, the Basic scheme with a malformed one.
Authorizations ==
  { Null, Value(BearerXyz) }
    \cup { Value(BasicPrefix \o btoa(p)) : p \in Payloads }
    \cup { Value(BasicPrefix \o m) : m \in MalformedBase64 }

\* The request targets (path and query).
Targets == { Root, ApiData, ApiDataQuery, ApiDataSlash, OtherPath }

\* The requests received and not yet answered at once, and the exchanges
\* recorded, are at most this many.
MaxRequests == 1

\* The same for the demo page's requests.
MaxDemoRequests == 5

(***************************************************************************)
(* State                                                                   *)
(***************************************************************************)

VARIABLES
  USER_NAME,   \* what secrets.ts exports: fixed when the process starts
  PASSWORD,
  inbox,       \* the requests received and not yet answered
  log          \* the exchanges so far, [request, response], in the order answered

vars == << USER_NAME, PASSWORD, inbox, log >>

(***************************************************************************)
(* The server                                                              *)
(***************************************************************************)

\* new URL(request.url).pathname: the target up to its query.
RECURSIVE Pathname(_)
Pathname(target) ==
  IF target = << >> \/ Head(target) = "?" \/ Head(target) = "#" THEN << >>
  ELSE << Head(target) >> \o Pathname(Tail(target))

\* A handler that keeps the last credentials it saw for the requests that
\* bring none (a session kept in a variable of the module).
HeadersGetRemembered(request) ==
  IF request.authorization.defined \/ \A i \in 1..Len(log) : ~log[i].request.authorization.defined
    THEN request.authorization
    ELSE log[CHOOSE i \in 1..Len(log) :
               /\ log[i].request.authorization.defined
               /\ \A j \in (i + 1)..Len(log) : ~log[j].request.authorization.defined
            ].request.authorization

\* request.headers.get('Authorization')
HeadersGetAuthorization(request) == request.authorization

\* !authorization: null and the empty string are falsy.
Falsy(authorization) == ~authorization.defined \/ authorization.value = << >>

NoBody == [kind |-> "null"]

\* new Response(null, { status: 401, headers: { 'WWW-Authenticate': 'Basic' } })
\* of the missing-header branch.
ChallengeNoCredentials ==
  [status |-> 401, headers |-> { << "WWW-Authenticate", "Basic" >> }, body |-> NoBody]

\* A challenge that names a realm.
ChallengeWithRealm ==
  [status |-> 401,
   headers |-> { << "WWW-Authenticate", "Basic realm=\"localhost\"" >> },
   body |-> NoBody]

\* The same response of the wrong-credentials branch.
ChallengeBadCredentials ==
  [status |-> 401, headers |-> { << "WWW-Authenticate", "Basic" >> }, body |-> NoBody]

\* Response.json({ userName })
ResponseJson(userName) ==
  [status |-> 200,
   headers |-> { << "Content-Type", "application/json;charset=utf-8" >> },
   body |-> [kind |-> "json", userName |-> userName]]

\* new Response(null, { status: 404 })
NotFound == [status |-> 404, headers |-> { }, body |-> NoBody]

\* The static route's answer: the imported index.html.
IndexHtml ==
  [status |-> 200,
   headers |-> { << "Content-Type", "text/html;charset=utf-8" >> },
   body |-> [kind |-> "html", file |-> "index.html"]]

\* The fields of the decoded credentials: split(':') of the decoded text.
Fields(base64) == Split(BufferFromBase64ToString(base64), ":")

\* A check that rejects only when both the user name and the password differ
\* (&& written for ||).
RejectedWhenBothDiffer(userName, password) ==
  StrictNotEqual(userName, USER_NAME) /\ StrictNotEqual(password, PASSWORD)

\* A check that forgets the password.
RejectedByUserName(userName, password) == StrictNotEqual(userName, USER_NAME)

\* The check of the credentials: userName !== USER_NAME || password !== PASSWORD
Rejected(userName, password) ==
  StrictNotEqual(userName, USER_NAME) \/ StrictNotEqual(password, PASSWORD)

\* The checks of the authenticated route on the Authorization header.
Gate(authorization) ==
  IF Falsy(authorization) \/ ~StartsWith(authorization.value, BasicPrefix)
    THEN ChallengeNoCredentials
    ELSE LET base64 == Slice(authorization.value, Len(BasicPrefix))
             userName == Destructure(Fields(base64), 1)
             password == Destructure(Fields(base64), 2)
         IN  IF Rejected(userName, password)
               THEN ChallengeBadCredentials
               ELSE ResponseJson(userName.value)

\* A base64 text is well formed: a multiple of four characters of the
\* alphabet, the last one or two of which may be '='.
WellFormedBase64(s) ==
  /\ Len(s) % 4 = 0
  /\ \A i \in 1..Len(s) :
       \/ \E k \in 1..64 : Base64Alphabet[k] = s[i]
       \/ s[i] = "=" /\ i >= Len(s) - 1 /\ s[Len(s)] = "="

\* The header names the Basic scheme.
HasBasic(authorization) ==
  authorization.defined /\ StartsWith(authorization.value, BasicPrefix)

\* A route that decodes with atob, which throws on a text that is not well
\* formed; Bun.serve answers a handler that throws with a 500.
ApiDataRouteAtob(request) ==
  IF /\ HasBasic(request.authorization)
     /\ ~WellFormedBase64(Slice(request.authorization.value, Len(BasicPrefix)))
    THEN [status |-> 500, headers |-> { }, body |-> NoBody]
    ELSE Gate(request.authorization)

\* The branch of the authenticated route.
ApiDataRoute(request) == Gate(HeadersGetAuthorization(request))

\* A handler that takes every path under /api/data for the authenticated route.
fetchByPrefix(request) ==
  IF StartsWith(Pathname(request.url), ApiData) THEN ApiDataRoute(request) ELSE NotFound

\* The dynamic handler.
fetch(request) ==
  LET url == Pathname(request.url)
  IN  IF url = ApiData THEN ApiDataRoute(request) ELSE NotFound

\* The paths of the static routes.
StaticRoutes == { Root }

\* A server whose fetch handler is asked before its static routes.
BunServeFetchFirst(request) == fetch(request)

\* Bun.serve: a static route answers its path, the fetch handler the rest.
BunServe(request) ==
  IF Pathname(request.url) \in StaticRoutes THEN IndexHtml ELSE fetch(request)

\* The server answers one of the requests it holds.  The handler has no
\* await: it runs to its end before another request is taken.
Serve ==
  \E request \in inbox :
    /\ inbox' = inbox \ { request }
    /\ log' = Append(log, [request |-> request, response |-> BunServe(request)])
    /\ UNCHANGED << USER_NAME, PASSWORD >>

(***************************************************************************)
(* The clients                                                             *)
(***************************************************************************)

Request(from, url, authorization) ==
  [from |-> from, url |-> url, authorization |-> authorization]

\* Any client sends any request.
Receive ==
  /\ Cardinality(inbox) + Len(log) < MaxRequests
  /\ \E url \in Targets, authorization \in Authorizations :
       /\ Request("client", url, authorization) \notin inbox
       /\ inbox' = inbox \cup { Request("client", url, authorization) }
  /\ UNCHANGED << USER_NAME, PASSWORD, log >>

\* The exchanges so far, as a set.
Exchanges == { log[i] : i \in 1..Len(log) }

\* The browser has the page: some request for it was answered with the file.
PageLoaded ==
  \E e \in Exchanges : e.request.from = "page" /\ e.response.body.kind = "html"

\* One more request of the demo page may be sent.
DemoRoom == Cardinality(inbox) + Len(log) < MaxDemoRequests

\* The browser opens the page at '/'.
LoadPage ==
  /\ DemoRoom
  /\ Request("page", Root, Null) \notin inbox
  /\ inbox' = inbox \cup { Request("page", Root, Null) }
  /\ UNCHANGED << USER_NAME, PASSWORD, log >>

\* The click handler of demo button 1: fetch('/api/data').  The lines the
\* handlers append to the document are left out: no request depends on them.
Demo1Click ==
  /\ DemoRoom
  /\ PageLoaded
  /\ Request("demo1", ApiData, Null) \notin inbox
  /\ inbox' = inbox \cup { Request("demo1", ApiData, Null) }
  /\ UNCHANGED << USER_NAME, PASSWORD, log >>

\* The header demo button 2 builds:
\* Authorization: `Basic ${btoa(`${USER_NAME}:${PASSWORD}`)}`
Demo2Authorization == Value(BasicPrefix \o btoa(USER_NAME \o Colon \o PASSWORD))

\* The click handler of demo button 2.
Demo2Click ==
  /\ DemoRoom
  /\ PageLoaded
  /\ Request("demo2", ApiData, Demo2Authorization) \notin inbox
  /\ inbox' = inbox \cup { Request("demo2", ApiData, Demo2Authorization) }
  /\ UNCHANGED << USER_NAME, PASSWORD, log >>

\* What the user types into the browser's prompt: the configured pair, or a
\* wrong one.
Typed ==
  { [userName |-> USER_NAME, password |-> PASSWORD],
    [userName |-> Wrong, password |-> Secret1234] }

\* The server challenged a request of the page for Basic credentials.
Challenged ==
  \E e \in Exchanges :
    /\ e.request.from \in { "demo1", "prompt" }
    /\ e.response.status = 401
    /\ << "WWW-Authenticate", "Basic" >> \in e.response.headers

\* The browser prompts for the credentials after a challenge and sends the
\* request again with what the user typed.
PromptRetry ==
  /\ DemoRoom
  /\ Challenged
  /\ \E typed \in Typed :
       LET authorization ==
             Value(BasicPrefix \o btoa(typed.userName \o Colon \o typed.password))
       IN  /\ Request("prompt", ApiData, authorization) \notin inbox
           /\ inbox' = inbox \cup { Request("prompt", ApiData, authorization) }
  /\ UNCHANGED << USER_NAME, PASSWORD, log >>

Init ==
  /\ \E secrets \in Secrets :
       /\ USER_NAME = secrets.USER_NAME
       /\ PASSWORD = secrets.PASSWORD
  /\ inbox = { }
  /\ log = << >>

Next == Receive \/ Serve

Spec == Init /\ [][Next]_vars

DemoNext == LoadPage \/ Demo1Click \/ Demo2Click \/ PromptRetry \/ Serve

DemoSpec == Init /\ [][DemoNext]_vars

(***************************************************************************)
(* Properties                                                              *)
(***************************************************************************)

\* The exchange is on the authenticated route.
Protected(e) == Pathname(e.request.url) = ApiData

\* The text a Basic header carries.
DecodedOf(authorization) ==
  BufferFromBase64ToString(Slice(authorization.value, Len(BasicPrefix)))

\* The text before the first colon (the whole text when it has none).
RECURSIVE IdentityOf(_)
IdentityOf(text) ==
  IF text = << >> \/ Head(text) = ":" THEN << >>
  ELSE << Head(text) >> \o IdentityOf(Tail(text))

HasColon(text) == \E i \in 1..Len(text) : text[i] = ":"

\* The text after the first colon, further colons included (empty when the
\* text has no colon).
SecretOf(text) == SubSeq(text, Len(IdentityOf(text)) + 2, Len(text))

\* The 401 challenge: no body, WWW-Authenticate: Basic and nothing else.
IsChallenge(response) ==
  response = [status |-> 401,
              headers |-> { << "WWW-Authenticate", "Basic" >> },
              body |-> NoBody]

\* The 404: no body, no header.
IsNotFound(response) ==
  response = [status |-> 404, headers |-> { }, body |-> NoBody]

\* C1 as stated: a request to /api/data is answered 200 exactly when its
\* header is there, begins with "Basic ", decodes to exactly two
\* colon-delimited fields, both non-empty and equal to the configured
\* identity and secret, and is answered 401 in every other case.  Stated for
\* a configured pair that has no empty field.
C1_AuthorizedPerClaim(authorization) ==
  /\ HasBasic(authorization)
  /\ LET fields == Split(DecodedOf(authorization), ":")
     IN  /\ Len(fields) = 2
         /\ fields[1] # << >> /\ fields[2] # << >>
         /\ fields[1] = USER_NAME /\ fields[2] = PASSWORD

C1_OkIffExactlyTheConfiguredPair ==
  \A e \in Exchanges :
    (Protected(e) /\ USER_NAME # << >> /\ PASSWORD # << >>) =>
      e.response.status =
        (IF C1_AuthorizedPerClaim(e.request.authorization) THEN 200 ELSE 401)

\* C2 as stated: the payload is split on its first colon only, so the header
\* "Basic " + base64(id:secret) of the configured pair is answered 200, also
\* when the secret holds a colon, and the payload id:secret:extra with a
\* non-empty extra is answered 401.
C2_SplitOnFirstColon ==
  \A e \in Exchanges :
    (Protected(e) /\ HasBasic(e.request.authorization)) =>
      LET text == DecodedOf(e.request.authorization)
          pair == USER_NAME \o Colon \o PASSWORD
      IN  /\ text = pair => e.response.status = 200
          /\ (StartsWith(text, pair \o Colon) /\ Len(text) > Len(pair) + 1)
               => e.response.status = 401

C5_ChallengeExactlyOn401 ==
  \A e \in Exchanges :
    /\ e.response.status = 401
         <=> (\E h \in e.response.headers : h[1] = "WWW-Authenticate")
    /\ e.response.status = 401 => IsChallenge(e.response)

\* Credentials of the Basic scheme that do not match were challenged.
C5_Witness ==
  \E e \in Exchanges :
    /\ Protected(e) /\ HasBasic(e.request.authorization)
    /\ e.response.status = 401

C7_BodyIsConfiguredIdentity ==
  \A e \in Exchanges :
    (Protected(e) /\ e.response.status = 200)
      => e.response.body = [kind |-> "json", userName |-> USER_NAME]

\* A request to /api/data was answered 200.
C7_Witness ==
  \E e \in Exchanges : Protected(e) /\ e.response.status = 200

\* C8: the answer to a request depends on its path and Authorization header
\* only: two requests with the same target and header get the same response
\* whatever was answered in between, and a request to /api/data with no
\* header is challenged also after a 200.
C8_NoCrossRequestState ==
  /\ \A e1, e2 \in Exchanges :
       (/\ e1.request.url = e2.request.url
        /\ e1.request.authorization = e2.request.authorization)
         => e1.response = e2.response
  /\ \A i, j \in 1..Len(log) :
       (/\ i < j
        /\ log[i].response.status = 200
        /\ Protected(log[j])
        /\ ~log[j].request.authorization.defined)
         => IsChallenge(log[j].response)

\* A request with no header was answered after a 200 of /api/data, and the
\* same header came from two requests.
C8_Witness ==
  /\ \E i, j \in 1..Len(log) :
       /\ i < j
       /\ Protected(log[i]) /\ log[i].response.status = 200
       /\ Protected(log[j]) /\ ~log[j].request.authorization.defined
  /\ \E i, j \in 1..Len(log) :
       /\ i < j
       /\ log[i].request.from # log[j].request.from
       /\ log[i].request.url = log[j].request.url
       /\ log[i].request.authorization = log[j].request.authorization
       /\ log[i].request.authorization.defined

\* C9 as stated: the request of demo button 1 is challenged, the request the
\* browser sends again with the configured credentials is answered 200, and
\* the request of demo button 2 is answered 200 at once.
C9_DemoProtocol ==
  \A e \in Exchanges :
    /\ e.request.from = "demo1" => IsChallenge(e.response)
    /\ (e.request.from = "prompt" /\ e.request.authorization = Demo2Authorization)
         => e.response.status = 200
    /\ e.request.from = "demo2" => e.response.status = 200

\* C10: the path '/' is answered with the static page, never with the 404 or
\* a 401, whatever its Authorization header, and a 404 is the answer only to
\* a path other than '/' and /api/data.
C10_StaticRouteFirst ==
  \A e \in Exchanges :
    /\ Pathname(e.request.url) = Root =>
         (e.response = IndexHtml /\ e.response.status \notin { 401, 404 })
    /\ e.response.status = 404 =>
         (Pathname(e.request.url) # Root /\ ~Protected(e))

\* The path '/' was asked for with an Authorization header and answered with
\* the page.
C10_Witness ==
  \E e \in Exchanges :
    /\ e.request.url = Root
    /\ e.request.authorization.defined
    /\ e.response.body.kind = "html"

=============================================================================
